---- MODULE Spec2Model ----
(***************************************************************************)
(* panic-write (src/src/lib.rs): a PanicHandler<W, F> bundles a writer W   *)
(* and a hook F; register publishes it in the two process-wide statics     *)
(* PANIC_HANDLER_GETTER / PANIC_HANDLER, which the #[panic_handler] reads.  *)
(*                                                                         *)
(* The application is one thread of control whose operations are split at  *)
(* every write to a static (pc names the next write).  A panic is an       *)
(* interrupt: it may be raised between any two of these writes, runs the   *)
(* body of panic() and never returns.                                      *)
(***************************************************************************)
EXTENDS Naturals, Sequences, FiniteSets

\* Bound: the longest text a sink holds before the panic report is appended.
MaxLen == 1

\* The handler objects of the program; each is constructed at most once.
Handlers == {"H1", "H2"}

\* The hook a handler is built with: new() supplies default_hook, new_with_hook
\* a closure (here the one that writes "FAULT").  With one writer type W, the
\* hook's type F names the monomorphization trampoline::<W, F>.
Hooks == {"default", "custom"}

\* The PanicInfo values the environment may pass to panic().
Infos == {[location |-> "src.rs:10", message |-> "index out of bounds"],
          [location |-> "main.rs:3", message |-> "explicit panic"]}

\* The writers a handler may be constructed from (their accumulated text).
Sinks == {<< >>, <<"boot">>}

None == "None"
null == "null"

VARIABLES
    PANIC_HANDLER_GETTER,  \* None, or the hook type F of the stored trampoline::<W, F>
    PANIC_HANDLER,         \* null, or the handler the stored *mut () points at
    obj,                   \* handler -> the PanicHandler value and who holds it
    pc,                    \* the application's position inside register/detach/drop
    mode,                  \* "run", "panic" (inside panic()), "halted" (in loop {})
    calls,                 \* the trampoline invocations made so far (history)
    taken,                 \* handler -> the writer detach returned, or None (history)
    last,                  \* the register/detach/drop begun last (history)
    getterBy,              \* the handler whose register stored the trampoline (history)
    hist,                  \* handler -> the writer it was built from, its calls so far (history)
    atPanic,               \* the writers as they were when the panic was raised (history)
    direct                 \* handler -> the writer it was built from, with the application's
                           \* writes made on it directly (history)

vars == <<PANIC_HANDLER_GETTER, PANIC_HANDLER, obj, pc, mode, calls, taken,
          last, getterBy, hist, atPanic, direct>>

\* What only the panic path changes: every application step leaves it alone.
app == <<mode, calls, atPanic>>

Idle == [op |-> "idle", h |-> None, at |-> 0]

\* A handler that has not been constructed yet.
Unborn == [life |-> "unborn", pinned |-> FALSE, hook |-> None, init |-> FALSE,
           writer |-> << >>, released |-> FALSE]

\* PanicHandler::new_with_hook: writer: MaybeUninit::new(writer), hook, _pin.
new_with_hook(writer, hook) ==
    [life |-> "live", pinned |-> FALSE, hook |-> hook, init |-> TRUE,
     writer |-> writer, released |-> FALSE]

\* PanicHandler::new: new_with_hook(writer, default_hook::<W>).
new(writer) == new_with_hook(writer, "default")

\* The text `write!(out, "{}", info)` formats from a PanicInfo.
Display(i) == <<"panicked at ", i.location, ": ", i.message>>

\* default_hook: let _ = write!(out, "{}", info).
default_hook(out, i) == out \o Display(i)

\* The custom hook of the program: writes "FAULT" whatever the PanicInfo.
custom_hook(out, i) == out \o <<"FAULT">>

\* W's own write primitive (core::fmt::Write::write_str on a text buffer).
write_str(out, text) == Append(out, text)

\* (handler.hook)(writer, info)
CallHook(hook, out, i) ==
    IF hook = "default" THEN default_hook(out, i) ELSE custom_hook(out, i)

\* The handler the slot refers to as the fault entry point sees it: panic()
\* looks at PANIC_HANDLER_GETTER alone and passes PANIC_HANDLER on.
Registered(h) == PANIC_HANDLER_GETTER # None /\ PANIC_HANDLER = h
Empty == PANIC_HANDLER_GETTER = None /\ PANIC_HANDLER = null
Entry == IF PANIC_HANDLER_GETTER = None THEN null ELSE PANIC_HANDLER

\* The application may start an operation on h: it is between operations, has
\* not panicked, and h is a constructed handler that was not destroyed.
CanCall(h) == mode = "run" /\ pc = Idle /\ obj[h].life = "live"

\* History: the operation begun on h, and the entry the slot held then.
Began(op, h) == [op |-> op, h |-> h, over |-> Entry]

\* History: h's progress through construct -> register -> detach; any other
\* call on h in between takes it off that path.
Advance(h, from, to) ==
    [hist EXCEPT ![h].trip = IF @ = from THEN to ELSE "off"]

\* let h = PanicHandler::new(w) / PanicHandler::new_with_hook(w, hook)
Construct(h, w, hook) ==
    /\ mode = "run" /\ pc = Idle
    /\ obj[h].life = "unborn"
    /\ obj' = [obj EXCEPT ![h] = IF hook = "default" THEN new(w)
                                 ELSE new_with_hook(w, hook)]
    /\ hist' = [hist EXCEPT ![h] = [orig |-> w, trip |-> "constructed"]]
    /\ direct' = [direct EXCEPT ![h] = w]
    /\ UNCHANGED <<PANIC_HANDLER_GETTER, PANIC_HANDLER, pc, taken, last, getterBy>>
    /\ UNCHANGED app

\* The caller pins the handler (PhantomPinned: only a Pin<&mut Self> reaches
\* register, detach and get_inner).  The Pin borrows the handler.
PinHandler(h) ==
    /\ CanCall(h)
    /\ ~obj[h].pinned
    /\ obj' = [obj EXCEPT ![h].pinned = TRUE]
    /\ UNCHANGED <<PANIC_HANDLER_GETTER, PANIC_HANDLER, pc, taken, last, getterBy, hist>>
    /\ UNCHANGED <<app, direct>>

\* Mutant of RegisterGetter: register retires the writer of the handler it
\* replaces.
RegisterGetterRetiresOld(h) ==
    /\ CanCall(h)
    /\ obj[h].pinned
    /\ PANIC_HANDLER_GETTER' = obj[h].hook
    /\ pc' = [op |-> "register", h |-> h, at |-> 2]
    /\ last' = Began("register", h)
    /\ getterBy' = h
    /\ obj' = IF PANIC_HANDLER = null THEN obj
              ELSE [obj EXCEPT ![PANIC_HANDLER].init = FALSE]
    /\ UNCHANGED <<PANIC_HANDLER, taken, hist>>
    /\ UNCHANGED <<app, direct>>

\* register, first write: PANIC_HANDLER_GETTER = Some(trampoline::<W, F>)
RegisterGetter(h) ==
    /\ CanCall(h)
    /\ obj[h].pinned
    /\ PANIC_HANDLER_GETTER' = obj[h].hook
    /\ pc' = [op |-> "register", h |-> h, at |-> 2]
    /\ last' = Began("register", h)
    /\ getterBy' = h
    /\ UNCHANGED <<PANIC_HANDLER, obj, taken, hist>>
    /\ UNCHANGED <<app, direct>>

\* Mutant of RegisterHandler: stores the pointer only into a null slot, so a
\* second registration keeps the first handler's pointer.
RegisterHandlerKeepFirst(h) ==
    /\ mode = "run"
    /\ pc = [op |-> "register", h |-> h, at |-> 2]
    /\ PANIC_HANDLER' = IF PANIC_HANDLER = null THEN h ELSE PANIC_HANDLER
    /\ pc' = Idle
    /\ hist' = Advance(h, "constructed", "registered")
    /\ UNCHANGED <<PANIC_HANDLER_GETTER, obj, taken, last, getterBy>>
    /\ UNCHANGED <<app, direct>>

\* register, second write: PANIC_HANDLER = transmute(self.as_ref())
RegisterHandler(h) ==
    /\ mode = "run"
    /\ pc = [op |-> "register", h |-> h, at |-> 2]
    /\ PANIC_HANDLER' = h
    /\ pc' = Idle
    /\ hist' = Advance(h, "constructed", "registered")
    /\ UNCHANGED <<PANIC_HANDLER_GETTER, obj, taken, last, getterBy>>
    /\ UNCHANGED <<app, direct>>

\* Mutant of DetachGetter: detach forgets to clear the trampoline.
DetachGetterKept(h) ==
    /\ CanCall(h)
    /\ obj[h].pinned
    /\ pc' = [op |-> "detach", h |-> h, at |-> 2]
    /\ last' = Began("detach", h)
    /\ UNCHANGED <<PANIC_HANDLER_GETTER, PANIC_HANDLER, obj, taken, hist, getterBy>>
    /\ UNCHANGED <<app, direct>>

\* detach, first write: PANIC_HANDLER_GETTER = None (whatever the slot holds)
DetachGetter(h) ==
    /\ CanCall(h)
    /\ obj[h].pinned
    /\ PANIC_HANDLER_GETTER' = None
    /\ pc' = [op |-> "detach", h |-> h, at |-> 2]
    /\ last' = Began("detach", h)
    /\ getterBy' = None
    /\ UNCHANGED <<PANIC_HANDLER, obj, taken, hist>>
    /\ UNCHANGED <<app, direct>>

\* Mutant of DetachHandler: detach goes on to unpin the handler without
\* having cleared the pointer.
DetachHandlerKept(h) ==
    /\ mode = "run"
    /\ pc = [op |-> "detach", h |-> h, at |-> 2]
    /\ pc' = [pc EXCEPT !.at = 3]
    /\ UNCHANGED <<PANIC_HANDLER_GETTER, PANIC_HANDLER, obj, taken, last, getterBy, hist>>
    /\ UNCHANGED <<app, direct>>

\* detach, second write: PANIC_HANDLER = null_mut()
DetachHandler(h) ==
    /\ mode = "run"
    /\ pc = [op |-> "detach", h |-> h, at |-> 2]
    /\ PANIC_HANDLER' = null
    /\ pc' = [pc EXCEPT !.at = 3]
    /\ UNCHANGED <<PANIC_HANDLER_GETTER, obj, taken, last, getterBy, hist>>
    /\ UNCHANGED <<app, direct>>

\* detach: let handler = Pin::into_inner_unchecked(handler).  The Pin passed by
\* value is used up; it was the caller's own Pin, or a reborrow of it
\* (Pin::as_mut), in which case the caller still holds a Pin afterwards.
DetachUnpin(h, reborrow) ==
    /\ mode = "run"
    /\ pc = [op |-> "detach", h |-> h, at |-> 3]
    /\ obj' = [obj EXCEPT ![h].pinned = reborrow]
    /\ pc' = [pc EXCEPT !.at = 4]
    /\ UNCHANGED <<PANIC_HANDLER_GETTER, PANIC_HANDLER, taken, last, getterBy, hist>>
    /\ UNCHANGED <<app, direct>>

\* Mutant of AssumeInit: the writer is read after it was replaced by uninit().
AssumeInitAfterReplace(o) == {<<"uninit">>}

\* The value read out of a MaybeUninit<W> by assume_init: the writer when it is
\* initialised; otherwise either the bytes the earlier move left behind or
\* anything else.
AssumeInit(o) ==
    IF o.init THEN {o.writer} ELSE {o.writer, <<"uninit">>}

\* detach: mem::replace(&mut handler.writer, MaybeUninit::uninit()).assume_init()
DetachTake(h) ==
    /\ mode = "run"
    /\ pc = [op |-> "detach", h |-> h, at |-> 4]
    /\ \E w \in AssumeInit(obj[h]) : taken' = [taken EXCEPT ![h] = w]
    /\ obj' = [obj EXCEPT ![h].init = FALSE]
    /\ pc' = Idle
    /\ hist' = Advance(h, "registered", "detached")
    /\ UNCHANGED <<PANIC_HANDLER_GETTER, PANIC_HANDLER, last, getterBy>>
    /\ UNCHANGED <<app, direct>>

\* Mutant of DropGetter: dropping the Pin leaves the trampoline in place.
DropGetterKept(h) ==
    /\ CanCall(h)
    /\ obj[h].pinned
    /\ pc' = [op |-> "drop", h |-> h, at |-> 2]
    /\ last' = Began("drop", h)
    /\ hist' = Advance(h, "-", "-")
    /\ UNCHANGED <<PANIC_HANDLER_GETTER, PANIC_HANDLER, obj, taken, getterBy>>
    /\ UNCHANGED <<app, direct>>

\* Drop for Pin<&mut PanicHandler>, first write: PANIC_HANDLER_GETTER = None
DropGetter(h) ==
    /\ CanCall(h)
    /\ obj[h].pinned
    /\ PANIC_HANDLER_GETTER' = None
    /\ pc' = [op |-> "drop", h |-> h, at |-> 2]
    /\ last' = Began("drop", h)
    /\ getterBy' = None
    /\ hist' = Advance(h, "-", "-")
    /\ UNCHANGED <<PANIC_HANDLER, obj, taken>>
    /\ UNCHANGED <<app, direct>>

\* Drop for Pin<&mut PanicHandler>, second write: PANIC_HANDLER = null_mut().
\* The dropped Pin was the caller's own or a reborrow of it.
DropHandler(h, reborrow) ==
    /\ mode = "run"
    /\ pc = [op |-> "drop", h |-> h, at |-> 2]
    /\ PANIC_HANDLER' = null
    /\ obj' = [obj EXCEPT ![h].pinned = reborrow]
    /\ pc' = Idle
    /\ UNCHANGED <<PANIC_HANDLER_GETTER, taken, last, getterBy, hist>>
    /\ UNCHANGED <<app, direct>>

\* The drop glue of PanicHandler<W, F>: no Drop impl; the fields are dropped in
\* turn, and dropping a MaybeUninit<W> does nothing, so W is never released.
DropGlue(o) ==
    [o EXCEPT !.life = "dead"]

\* The PanicHandler value itself goes out of scope.  The borrow checker lets
\* this happen only after every Pin<&mut Self> borrowing it is gone.  The
\* struct has no Drop of its own: the hook is dropped, the MaybeUninit<W> is not.
Destroy(h) ==
    /\ CanCall(h)
    /\ ~obj[h].pinned
    /\ obj' = [obj EXCEPT ![h] = DropGlue(@)]
    /\ hist' = Advance(h, "-", "-")
    /\ UNCHANGED <<PANIC_HANDLER_GETTER, PANIC_HANDLER, pc, taken, last, getterBy>>
    /\ UNCHANGED <<app, direct>>

\* Deref::deref / DerefMut::deref_mut: &*self.writer.as_ptr().  What the
\* reference reaches: the writer while it is initialised, otherwise the bytes
\* left behind or anything else.
deref(o) ==
    IF o.init THEN {o.writer} ELSE {o.writer, <<"uninit">>}

\* Mutant of WriteThrough: the reference handed out is to a copy of the writer,
\* so the write never reaches the handler's writer.
WriteThroughCopy(h, text) ==
    /\ CanCall(h)
    /\ Len(obj[h].writer) < MaxLen
    /\ direct' = [direct EXCEPT ![h] = write_str(@, text)]
    /\ hist' = Advance(h, "-", "-")
    /\ UNCHANGED <<PANIC_HANDLER_GETTER, PANIC_HANDLER, obj, taken, pc, last, getterBy>>
    /\ UNCHANGED app

\* The application writes through the handler: DerefMut::deref_mut on the
\* handler, or get_inner on its Pin; both hand out &mut *writer.as_mut_ptr()
\* without looking at whether the writer is initialised.  A write through a
\* retired writer lands in the bytes the move left behind: they alias the
\* writer detach returned, or they are a copy nobody reads.
WriteThrough(h, text) ==
    /\ CanCall(h)
    /\ Len(obj[h].writer) < MaxLen
    /\ obj' = [obj EXCEPT ![h].writer = write_str(@, text)]
    /\ \/ UNCHANGED taken
       \/ /\ ~obj[h].init /\ taken[h] # None
          /\ taken' = [taken EXCEPT ![h] = write_str(@, text)]
    /\ direct' = [direct EXCEPT ![h] = write_str(@, text)]
    /\ hist' = Advance(h, "-", "-")
    /\ UNCHANGED <<PANIC_HANDLER_GETTER, PANIC_HANDLER, pc, last, getterBy>>
    /\ UNCHANGED app

\* One invocation of a trampoline, as the history records it: the
\* monomorphization called, the pointer passed, the handler whose hook ran and
\* the handler whose writer it was given ("wild": not a handler's).
Call(F, ptr, hook, sink, i) ==
    [tramp |-> F, ptr |-> ptr, hook |-> hook, sink |-> sink, info |-> i]

\* The pointer is one trampoline::<W, F> may reinterpret: a live
\* PanicHandler<W, F>.
Sound(F, ptr) == ptr # null /\ obj[ptr].life = "live" /\ obj[ptr].hook = F

\* trampoline::<W, F>(ptr, info): transmute ptr to &mut PanicHandler<W, F>,
\* take &mut *handler.writer.as_mut_ptr() and call (handler.hook)(writer, info).
\* Reinterpreting null, a handler of another type or a retired writer is
\* undefined: the hook may run on what the bytes happen to be, or nothing
\* visible happens.
trampoline(F, ptr, i) ==
    \/ /\ Sound(F, ptr) /\ obj[ptr].init
       /\ obj' = [obj EXCEPT ![ptr].writer = CallHook(obj[ptr].hook, @, i)]
       /\ calls' = Append(calls, Call(F, ptr, ptr, ptr, i))
       /\ UNCHANGED taken
    \/ /\ Sound(F, ptr) /\ ~obj[ptr].init
       /\ calls' = Append(calls, Call(F, ptr, ptr, "wild", i))
       /\ \/ /\ taken[ptr] # None
             /\ taken' = [taken EXCEPT ![ptr] = CallHook(obj[ptr].hook, @, i)]
          \/ UNCHANGED taken
       /\ UNCHANGED obj
    \/ /\ ptr # null /\ ~Sound(F, ptr)
       /\ calls' = Append(calls, Call(F, ptr, "wild", ptr, i))
       /\ \/ /\ obj[ptr].life = "live" /\ obj[ptr].init
             /\ obj' = [obj EXCEPT ![ptr].writer = CallHook(F, @, i)]
          \/ UNCHANGED obj
       /\ UNCHANGED taken
    \/ /\ ptr = null
       /\ calls' = Append(calls, Call(F, ptr, "wild", "wild", i))
       /\ UNCHANGED <<obj, taken>>

\* The writers of the program: each handler's, and each one detach returned.
Writers == [held |-> [h \in Handlers |-> obj[h].writer], out |-> taken]

\* The environment raises a panic: at any instruction boundary of the
\* application, once (panic() never returns).
PanicRaise ==
    /\ mode = "run"
    /\ mode' = "panic"
    /\ atPanic' = Writers
    /\ UNCHANGED <<PANIC_HANDLER_GETTER, PANIC_HANDLER, obj, pc, calls, taken,
                   last, getterBy, hist, direct>>

\* Mutant of panic: with no trampoline stored it falls back to the default
\* monomorphization instead of skipping the report.
panicFallback(info) ==
    /\ mode = "panic"
    /\ trampoline(IF PANIC_HANDLER_GETTER # None THEN PANIC_HANDLER_GETTER
                  ELSE "default", PANIC_HANDLER, info)
    /\ mode' = "halted"
    /\ UNCHANGED <<PANIC_HANDLER_GETTER, PANIC_HANDLER, pc, last, getterBy,
                   hist, atPanic, direct>>

\* Mutant of panic: the loop {} is missing and panic() returns to the
\* application.
panicReturns(info) ==
    /\ mode = "panic"
    /\ IF PANIC_HANDLER_GETTER # None
       THEN trampoline(PANIC_HANDLER_GETTER, PANIC_HANDLER, info)
       ELSE UNCHANGED <<obj, calls, taken>>
    /\ mode' = "run"
    /\ UNCHANGED <<PANIC_HANDLER_GETTER, PANIC_HANDLER, pc, last, getterBy,
                   hist, atPanic, direct>>

\* panic(info): if let Some(trampoline) = PANIC_HANDLER_GETTER
\*              { trampoline(PANIC_HANDLER, info) }  loop {}
panic(info) ==
    /\ mode = "panic"
    /\ IF PANIC_HANDLER_GETTER # None
       THEN trampoline(PANIC_HANDLER_GETTER, PANIC_HANDLER, info)
       ELSE UNCHANGED <<obj, calls, taken>>
    /\ mode' = "halted"
    /\ UNCHANGED <<PANIC_HANDLER_GETTER, PANIC_HANDLER, pc, last, getterBy,
                   hist, atPanic, direct>>

Init ==
    /\ PANIC_HANDLER_GETTER = None
    /\ PANIC_HANDLER = null
    /\ obj = [h \in Handlers |-> Unborn]
    /\ pc = Idle
    /\ mode = "run"
    /\ calls = << >>
    /\ taken = [h \in Handlers |-> None]
    /\ last = [op |-> "none", h |-> None, over |-> null]
    /\ getterBy = None
    /\ hist = [h \in Handlers |-> [orig |-> << >>, trip |-> "none"]]
    /\ atPanic = None
    /\ direct = [h \in Handlers |-> << >>]

Next ==
    \/ \E h \in Handlers, w \in Sinks, hook \in Hooks : Construct(h, w, hook)
    \/ \E h \in Handlers : PinHandler(h)
    \/ \E h \in Handlers : RegisterGetter(h)
    \/ \E h \in Handlers : RegisterHandler(h)
    \/ \E h \in Handlers : DetachGetter(h)
    \/ \E h \in Handlers : DetachHandler(h)
    \/ \E h \in Handlers, reborrow \in BOOLEAN : DetachUnpin(h, reborrow)
    \/ \E h \in Handlers : DetachTake(h)
    \/ \E h \in Handlers : DropGetter(h)
    \/ \E h \in Handlers, reborrow \in BOOLEAN : DropHandler(h, reborrow)
    \/ \E h \in Handlers : Destroy(h)
    \/ \E h \in Handlers : WriteThrough(h, "log")
    \/ PanicRaise
    \/ \E i \in Infos : panic(i)

Spec == Init /\ [][Next]_vars

\* The processor keeps executing panic() once it has been entered.
FairSpec == Spec /\ WF_vars(\E i \in Infos : panic(i))

TypeOK ==
    /\ PANIC_HANDLER_GETTER \in Hooks \cup {None}
    /\ PANIC_HANDLER \in Handlers \cup {null}
    /\ mode \in {"run", "panic", "halted"}
    /\ \A h \in Handlers : obj[h].life \in {"unborn", "live", "dead"}
    /\ (pc = Idle => (PANIC_HANDLER_GETTER = None <=> PANIC_HANDLER = null))

(***************************************************************************)
(* Properties                                                              *)
(***************************************************************************)

\* The text hook F appends for PanicInfo i.
Report(F, i) == IF F = "default" THEN Display(i) ELSE <<"FAULT">>

\* The panic wrote no writer at all.
NoReport == calls = << >> /\ Writers = atPanic

\* C1: whenever panic() invokes a trampoline, the pointer it passes is the one
\* stored by the register call that stored that trampoline, also when the
\* panic arrives between the two writes of register.
C1_MatchedPair ==
    \A k \in 1..Len(calls) : calls[k].ptr = getterBy

\* C2: in every state, also between the writes of register, detach and drop,
\* the trampoline and the handler pointer are both present or both absent.
C2_BothOrNeither ==
    (PANIC_HANDLER_GETTER = None) <=> (PANIC_HANDLER = null)

\* C3: after completed register calls with no detach or drop since, the slot
\* holds exactly the pair of the last register call, and a panic then runs
\* that handler's hook and no other.
C3_LastRegisterWins ==
    (pc = Idle /\ last.op = "register") =>
        /\ PANIC_HANDLER = last.h
        /\ PANIC_HANDLER_GETTER = obj[last.h].hook
        /\ getterBy = last.h
        /\ mode = "halted" =>
              /\ Len(calls) = 1
              /\ calls[1].tramp = obj[last.h].hook
              /\ calls[1].ptr = last.h
              /\ calls[1].hook = last.h

\* C3 witness: H2 was registered over H1, and the panic has been handled.
C3_Witness ==
    /\ pc = Idle /\ mode = "halted"
    /\ last = [op |-> "register", h |-> "H2", over |-> "H1"]

\* C4: detach or drop of a handler other than the registered one leaves the
\* slot referring to the registered one.
C4_OtherHandlerKept ==
    (pc = Idle /\ last.op \in {"detach", "drop"}
        /\ last.over # null /\ last.over # last.h) =>
        /\ Registered(last.over)
        /\ PANIC_HANDLER_GETTER = obj[last.over].hook

\* C5: detach of the registered handler leaves the slot Empty, and a panic
\* after it reports nothing.
C5_DetachEmpties ==
    (pc = Idle /\ last.op = "detach" /\ last.over = last.h) =>
        /\ Empty
        /\ mode = "halted" => NoReport

\* C5 witness: the registered handler was detached, then the panic was handled.
C5_Witness ==
    /\ pc = Idle /\ mode = "halted"
    /\ last = [op |-> "detach", h |-> "H1", over |-> "H1"]
    /\ taken["H1"] # None

C7_ExactReport ==
    (mode = "halted" /\ pc = Idle /\ Entry # null) =>
        LET h == Entry IN
        /\ Len(calls) = 1
        /\ calls[1] = Call(obj[h].hook, h, h, h, calls[1].info)
        /\ obj[h].writer = atPanic.held[h] \o Report(obj[h].hook, calls[1].info)
        /\ \A g \in Handlers \ {h} : obj[g].writer = atPanic.held[g]
        /\ taken = atPanic.out

\* C8: a panic that finds the slot Empty invokes no trampoline and writes no
\* writer.
C8_EmptyNoReport ==
    (mode = "halted" /\ Empty) => NoReport

\* C8 witness: a panic handled with the slot Empty although a handler exists
\* and one was registered before.
C8_Witness ==
    /\ mode = "halted" /\ Empty
    /\ obj["H1"].life = "live" /\ obj["H1"].init
    /\ last.op \in {"detach", "drop"} /\ last.over # null

\* C9: detach(register(construct(S))) returns a writer holding S's text, and
\* the slot is Empty when it returns.
C9_RoundTrip ==
    \A h \in Handlers :
        (pc = Idle /\ hist[h].trip = "detached") =>
            /\ taken[h] = hist[h].orig
            /\ (last.op = "detach" /\ last.h = h) => Empty

\* C9 witness: H1 was built from a writer holding "boot", registered and
\* detached.
C9_Witness ==
    /\ pc = Idle /\ hist["H1"].trip = "detached"
    /\ hist["H1"].orig = <<"boot">>
    /\ last.op = "detach" /\ last.h = "H1"

\* C10: once panic() is entered it reaches loop {}; the application takes no
\* further step; a hook runs at most once, and only from panic().
C10_HaltedTerminal ==
    /\ [][mode # "halted"]_vars
    /\ [][mode = "panic" =>
            /\ mode' = "halted"
            /\ UNCHANGED <<PANIC_HANDLER_GETTER, PANIC_HANDLER, pc, last>>]_vars
    /\ [][(calls' # calls \/ (mode # "run" /\ Writers' # Writers)) =>
            /\ mode = "panic" /\ PANIC_HANDLER_GETTER # None
            /\ calls = << >> /\ Len(calls') = 1]_vars
    /\ (mode = "panic") ~> (mode = "halted")

\* C10 witness: the panic was handled with a trampoline invoked.
C10_Witness ==
    mode = "halted" /\ Len(calls) = 1

\* C11: while H's writer has not been detached, a read through H observes
\* exactly what the writer S holds with the same writes made on S itself, a
\* write through H is that write on S, and neither touches the slot.
C11_PassThrough ==
    /\ [](\A h \in Handlers :
            (mode = "run" /\ obj[h].life = "live" /\ obj[h].init) =>
                deref(obj[h]) = {direct[h]})
    /\ [][\A h \in Handlers :
            (mode = "run" /\ obj[h].life = "live" /\ obj[h].init
                /\ direct'[h] # direct[h]) =>
                /\ obj'[h] = [obj[h] EXCEPT !.writer = direct'[h]]
                /\ \A g \in Handlers \ {h} : obj'[g] = obj[g]
                /\ UNCHANGED <<PANIC_HANDLER_GETTER, PANIC_HANDLER, taken>>]_vars

\* C11 witness: "log" was written through H1 while it was the registered
\* handler.
C11_Witness ==
    /\ mode = "run" /\ pc = Idle /\ Registered("H1")
    /\ obj["H1"].init /\ obj["H1"].writer = <<"log">>

\* C12: whenever the slot references H, H's writer has not been taken out by
\* detach, so a trampoline never gets a retired writer.
C12_NoRetiredSink ==
    /\ \A h \in Handlers : Entry = h => obj[h].init
    /\ \A k \in 1..Len(calls) :
          calls[k].hook \in Handlers => calls[k].sink = calls[k].hook

C14_NoUseAfterRetire ==
    [][\A h \in Handlers :
        (mode = "run" /\ obj[h].life = "live" /\ ~obj[h].init) =>
            /\ ~(pc = [op |-> "detach", h |-> h, at |-> 4] /\ pc' = Idle)
            /\ direct'[h] = direct[h]]_vars

\* C15: a handler destroyed without a detach has had its writer released, and
\* the slot never refers to a handler whose writer was released.
C15_DestroyReleases ==
    /\ \A h \in Handlers :
          (obj[h].life = "dead" /\ taken[h] = None) => obj[h].released
    /\ \A h \in Handlers :
          (PANIC_HANDLER = h \/ Entry = h) => ~obj[h].released

\* C16: the steps of register leave every handler's writer, its validity and
\* its hook as they were, the replaced handler's included, and hand out no
\* writer.
C16_RegisterFrame ==
    [][(mode = "run" /\ mode' = "run"
          /\ (pc.op = "register" \/ pc'.op = "register")) =>
            /\ obj' = obj
            /\ taken' = taken
            /\ direct' = direct]_vars

\* C16 witness: H2 was registered over H1 and both writers are still valid.
C16_Witness ==
    /\ mode = "run" /\ pc = Idle
    /\ last = [op |-> "register", h |-> "H2", over |-> "H1"]
    /\ obj["H1"].init /\ obj["H2"].init
    /\ obj["H1"].writer = <<"boot">>

====
